---- MODULE Spec2Model ----
(***************************************************************************)
(* Model of scripts/create-iframe.py and scripts/create-data-url.py.       *)
(*                                                                         *)
(* A Python str is a sequence of one-character strings, so that joining,   *)
(* splitting and quoting are computed and not assumed.  A pathlib path is  *)
(* its tuple of parts: the anchor first (when the path is absolute), then  *)
(* one part per segment.  The platform (os) is "posix" or "nt": pathlib    *)
(* picks the separator and the shape of the anchor from it.                *)
(* Symbolic links, UNC shares and letter case are not modelled: resolve()  *)
(* only anchors a relative path at the working directory and folds "..".   *)
(***************************************************************************)
EXTENDS Integers, Sequences, FiniteSets, TLC

VARIABLES os, pc, audio_path, viewer_url, rel,
          tool, argv, i, overlays, height, fs, stdout, stderr, exit

vars == <<os, pc, audio_path, viewer_url, rel,
          tool, argv, i, overlays, height, fs, stdout, stderr, exit>>

(* ------------------------------ bounds -------------------------------- *)
MaxSegs == 3
MaxOpts == 4

(* ------------------------------ strings ------------------------------- *)
DotDot == <<".", ".">>
Dot == <<".">>
Slash == <<"/">>

Platforms == {"posix", "nt"}

Sep(o) == IF o = "nt" THEN <<"\\">> ELSE Slash
Seps(o) == IF o = "nt" THEN {"\\", "/"} ELSE {"/"}

RECURSIVE Join(_, _)
Join(sep, parts) ==
    IF parts = <<>> THEN <<>>
    ELSE IF Len(parts) = 1 THEN parts[1]
    ELSE parts[1] \o sep \o Join(sep, Tail(parts))

RECURSIVE Split(_, _)
Split(s, seps) ==
    IF s = <<>> THEN << <<>> >>
    ELSE LET rest == Split(Tail(s), seps)
         IN  IF s[1] \in seps THEN << <<>> >> \o rest
             ELSE << <<s[1]>> \o rest[1] >> \o Tail(rest)

Repeat(x, n) == [k \in 1..n |-> x]

Front(s) == SubSeq(s, 1, Len(s) - 1)

(* ------------------------------ pathlib ------------------------------- *)
Cwd(o) == IF o = "nt" THEN << <<"C", ":", "\\">>, <<"a">> >>
          ELSE << Slash, <<"a">> >>

\* Path(s): the anchor (<<>> for a relative path) and the segments; empty
\* segments and "." are dropped, ".." is kept.
Anchor(o, s) ==
    IF o = "nt"
    THEN IF Len(s) >= 3 /\ s[2] = ":" /\ s[3] \in Seps(o)
         THEN <<s[1], ":", "\\">>
         ELSE IF Len(s) >= 1 /\ s[1] \in Seps(o) THEN Cwd(o)[1] ELSE <<>>
    ELSE IF Len(s) >= 1 /\ s[1] = "/" THEN Slash ELSE <<>>

Segments(o, s) ==
    LET body == IF o = "nt" /\ Len(s) >= 3 /\ s[2] = ":" /\ s[3] \in Seps(o)
                THEN SubSeq(s, 4, Len(s)) ELSE s
    IN  SelectSeq(Split(body, Seps(o)), LAMBDA x : x # <<>> /\ x # Dot)

RECURSIVE Fold(_, _)
Fold(base, segs) ==
    IF segs = <<>> THEN base
    ELSE IF segs[1] = DotDot
         THEN Fold(IF Len(base) > 1 THEN Front(base) ELSE base, Tail(segs))
         ELSE Fold(Append(base, segs[1]), Tail(segs))

\* Path(s).resolve().parts
Resolve(o, s) ==
    Fold(IF Anchor(o, s) = <<>> THEN Cwd(o) ELSE << Anchor(o, s) >>,
         Segments(o, s))

\* a viewer directory that is the viewer file itself
Parent_Self(parts) == parts

\* Path.parent on parts: the anchor is its own parent
Parent(parts) == IF Len(parts) = 1 THEN parts ELSE Front(parts)

\* other is a prefix of parts: relative_to(other) does not raise
IsRelativeTo(parts, other) ==
    /\ Len(other) <= Len(parts)
    /\ SubSeq(parts, 1, Len(other)) = other

\* a remainder that keeps the last segment of other
RelativeTo_OffByOne(parts, other) == SubSeq(parts, Len(other), Len(parts))

RelativeTo(parts, other) == SubSeq(parts, Len(other) + 1, Len(parts))

\* a str() that writes a path without parts as the empty string
PathStr_NoDot(o, parts) == Join(Sep(o), parts)

\* str() of a relative path: "." when it has no parts
PathStr(o, parts) == IF parts = <<>> THEN Dot ELSE Join(Sep(o), parts)

\* a count that goes on after the first difference
RECURSIVE CommonLength_NoBreak(_, _)
CommonLength_NoBreak(a, b) ==
    IF a = <<>> \/ b = <<>> THEN 0
    ELSE (IF a[1] = b[1] THEN 1 ELSE 0) + CommonLength_NoBreak(Tail(a), Tail(b))

\* a count that takes the two anchors to be the same
RECURSIVE CommonLength_FromRoot(_, _)
CommonLength_FromRoot(a, b) ==
    IF a = <<>> \/ b = <<>> THEN 0
    ELSE 1 + (IF Len(a) > 1 /\ Len(b) > 1 /\ a[2] = b[2]
              THEN CommonLength_FromRoot(Tail(a), Tail(b)) ELSE 0)

RECURSIVE CommonLength(_, _)
CommonLength(a, b) ==
    IF a = <<>> \/ b = <<>> THEN 0
    ELSE IF a[1] = b[1] THEN 1 + CommonLength(Tail(a), Tail(b))
    ELSE 0

calculate_relative_path(o, ap, vu) ==
    LET audio_file == Resolve(o, ap)
        viewer_dir == Parent(Resolve(o, vu))
    IN  IF IsRelativeTo(audio_file, viewer_dir)
        THEN PathStr(o, RelativeTo(audio_file, viewer_dir))
        ELSE LET common_length == CommonLength(audio_file, viewer_dir)
                 ups == Len(viewer_dir) - common_length
                 downs == SubSeq(audio_file, common_length + 1, Len(audio_file))
             IN  Join(Slash, Repeat(DotDot, ups) \o downs)

(* ------------------------------ inputs -------------------------------- *)
Names == { <<"a">>, <<"b">> }

RECURSIVE SeqsUpTo(_, _)
SeqsUpTo(S, n) ==
    IF n = 0 THEN { <<>> }
    ELSE LET shorter == SeqsUpTo(S, n - 1)
         IN  shorter \cup { Append(q, x) : q \in { t \in shorter : Len(t) = n - 1 }, x \in S }

Anchors(o) == IF o = "nt" THEN { <<>>, <<"C", ":", "\\">>, <<"D", ":", "\\">> }
              ELSE { <<>>, Slash }

\* the path strings a caller can pass: an optional anchor, then at most
\* MaxSegs segments, each a name or "..", written with the platform's separator
PathStrings(o) ==
    { a \o Join(Sep(o), q) : a \in Anchors(o), q \in SeqsUpTo(Names \cup {DotDot}, MaxSegs) }

(* --------------------- calculate_relative_path ------------------------ *)
PathInit ==
    /\ os \in Platforms
    /\ pc = "call"
    /\ audio_path \in PathStrings(os)
    /\ viewer_url \in PathStrings(os)
    /\ rel = <<>>
    /\ tool = "none" /\ argv = <<>> /\ i = 0 /\ overlays = <<>> /\ height = <<>>
    /\ fs = "none" /\ stdout = <<>> /\ stderr = <<>> /\ exit = -1

Calc ==
    /\ pc = "call"
    /\ rel' = calculate_relative_path(os, audio_path, viewer_url)
    /\ pc' = "return"
    /\ UNCHANGED <<os, audio_path, viewer_url, tool, argv, i, overlays, height,
                   fs, stdout, stderr, exit>>

PathNext == Calc

PathSpec == PathInit /\ [][PathNext]_vars

(* ------------------------- the command lines -------------------------- *)
Tools == {"create-iframe", "create-data-url"}

OVERLAYS == <<"-", "-", "o", "v", "e", "r", "l", "a", "y", "s">>
VIEWER_URL == <<"-", "-", "v", "i", "e", "w", "e", "r", "-", "u", "r", "l">>
HEIGHT == <<"-", "-", "h", "e", "i", "g", "h", "t">>

DefaultOverlays == <<"p", "i", "t", "c", "h", ",", "f", "o", "r", "m", "a", "n", "t", "s">>

DefaultViewerUrl(t) ==
    IF t = "create-iframe" THEN <<".", "/", "o", "z", "e", "n", "-", "w", "e", "b", "/", "v", "i", "e", "w", "e", "r", ".", "h", "t", "m", "l">>
    ELSE <<"v", "i", "e", "w", "e", "r", ".", "h", "t", "m", "l">>

DefaultHeight == 600

Digits == <<"0", "1", "2", "3", "4", "5", "6", "7", "8", "9">>

DigitSet == { Digits[d] : d \in 1..10 }

\* int(s) succeeds; signs, blanks and underscores are not modelled
IsInt(s) == s # <<>> /\ \A k \in 1..Len(s) : s[k] \in DigitSet

RECURSIVE IntOf(_)
IntOf(s) ==
    IF s = <<>> THEN 0
    ELSE 10 * IntOf(Front(s)) + ((CHOOSE d \in 1..10 : Digits[d] = s[Len(s)]) - 1)

RECURSIVE StrOfInt(_)
StrOfInt(n) ==
    IF n < 10 THEN << Digits[n + 1] >>
    ELSE StrOfInt(n \div 10) \o << Digits[(n % 10) + 1] >>

\* height is an int or a str
IntHeight(n) == [isint |-> TRUE, n |-> n, s |-> <<>>]
StrHeight(s) == [isint |-> FALSE, n |-> 0, s |-> s]
HeightStr(h) == IF h.isint THEN StrOfInt(h.n) ELSE h.s

\* urllib.parse.quote on the characters the model uses: letters, digits and
\* "_.-~" are never quoted, the others unless listed in safe
PercentCode ==
    [c \in {"/", "\\", ":", "%", ","} |->
        CASE c = "/" -> <<"%", "2", "F">>
          [] c = "\\" -> <<"%", "5", "C">>
          [] c = ":" -> <<"%", "3", "A">>
          [] c = "%" -> <<"%", "2", "5">>
          [] c = "," -> <<"%", "2", "C">>]

RECURSIVE Quote(_, _)
Quote(s, safe) ==
    IF s = <<>> THEN <<>>
    ELSE (IF s[1] \in safe \/ s[1] \notin DOMAIN PercentCode THEN << s[1] >>
          ELSE PercentCode[s[1]]) \o Quote(Tail(s), safe)

\* what is at the audio path: nothing, a file, a file above 1.5MB, a directory
FileKinds == {"missing", "file", "big", "dir"}

\* a check that finds every file
Exists_Always(kind) == TRUE

Exists(kind) == kind # "missing"

NoHtml == [kind |-> "none"]

\* create_embedded_viewer: the exception it raises, or the iframe it returns
\* (and whether it warned about the size on the way)
create_embedded_viewer(t, o, kind, ap, ov, vu, h) ==
    IF ~Exists(kind)
    THEN [raised |-> TRUE, exc |-> "FileNotFoundError", warned |-> FALSE, html |-> NoHtml]
    ELSE IF t = "create-iframe"
    THEN [raised |-> FALSE, exc |-> "", warned |-> FALSE,
          html |-> [kind |-> "iframe", external |-> TRUE, viewer_url |-> vu,
                    audio |-> Quote(calculate_relative_path(o, ap, vu), {"/"}),
                    overlays |-> ov, height |-> HeightStr(h)]]
    ELSE IF kind = "dir"
    THEN [raised |-> TRUE,
          exc |-> IF o = "nt" THEN "PermissionError" ELSE "IsADirectoryError",
          warned |-> FALSE, html |-> NoHtml]
    ELSE [raised |-> FALSE, exc |-> "", warned |-> kind = "big",
          html |-> [kind |-> "iframe", external |-> FALSE, viewer_url |-> vu,
                    audio |-> [quoted |-> "data:audio/wav;base64,", b64 |-> kind],
                    overlays |-> ov, height |-> StrOfInt(DefaultHeight)]]

\* sys.argv[k]
Arg(k) == argv[k + 1]

Argc == Len(argv)

\* a handler that forgets sys.exit(1)
ExitStatus_Zero(raised) == 0

\* the status the process ends with: sys.exit(1) in the handler, 0 otherwise
ExitStatus(raised) == IF raised THEN 1 ELSE 0

Usage == [kind |-> "usage"]
UnknownArgument(a) == [kind |-> "unknown argument", arg |-> a]
Error(exc, ap) == [kind |-> "error", exc |-> exc, path |-> ap]
SizeWarning == [kind |-> "size warning"]

\* the option tokens of a run: the flags, a token no tool knows, a value
Unknown == <<"-", "x">>
OptionTokens == { OVERLAYS, VIEWER_URL, HEIGHT, Unknown, <<"0", "8">> }
AudioArgs == { <<"b">>, <<".", ".", "/", "a">> }
Prog == <<"p", "y">>

ArgVectors ==
    { <<Prog>> } \cup
    { <<Prog, a>> \o q : a \in AudioArgs, q \in SeqsUpTo(OptionTokens, MaxOpts) }

NoHeight == StrHeight(<<>>)

Init ==
    /\ os \in Platforms
    /\ tool \in Tools
    /\ fs \in FileKinds
    /\ argv \in ArgVectors
    /\ pc = "main"
    /\ audio_path = <<>> /\ viewer_url = <<>> /\ overlays = <<>>
    /\ height = NoHeight /\ i = 0 /\ rel = <<>>
    /\ stdout = <<>> /\ stderr = <<>> /\ exit = -1

\* no audio file on the command line: the usage text, exit 1
MainUsage ==
    /\ pc = "main" /\ Argc < 2
    /\ stdout' = Append(stdout, Usage)
    /\ exit' = 1
    /\ pc' = "done"
    /\ UNCHANGED <<os, tool, fs, argv, audio_path, viewer_url, overlays, height,
                   i, rel, stderr>>

MainDefaults ==
    /\ pc = "main" /\ Argc >= 2
    /\ audio_path' = Arg(1)
    /\ overlays' = DefaultOverlays
    /\ viewer_url' = DefaultViewerUrl(tool)
    /\ height' = IF tool = "create-iframe" THEN IntHeight(DefaultHeight) ELSE height
    /\ i' = 2
    /\ pc' = "parse"
    /\ UNCHANGED <<os, tool, fs, argv, rel, stdout, stderr, exit>>

IsOverlays == Arg(i) = OVERLAYS /\ i + 1 < Argc
IsViewerUrl == Arg(i) = VIEWER_URL /\ i + 1 < Argc
\* --height taken by both tools
IsHeight_AnyTool == Arg(i) = HEIGHT /\ i + 1 < Argc

IsHeight == tool = "create-iframe" /\ Arg(i) = HEIGHT /\ i + 1 < Argc

\* a loop that steps over the flag and not over its value
Advance_One(k) == k + 1

Advance(k) == k + 2

ParseOverlays ==
    /\ pc = "parse" /\ i < Argc
    /\ IsOverlays
    /\ overlays' = Arg(i + 1)
    /\ i' = Advance(i)
    /\ UNCHANGED <<os, tool, fs, argv, pc, audio_path, viewer_url, height, rel,
                   stdout, stderr, exit>>

ParseViewerUrl ==
    /\ pc = "parse" /\ i < Argc
    /\ ~IsOverlays /\ IsViewerUrl
    /\ viewer_url' = Arg(i + 1)
    /\ i' = Advance(i)
    /\ UNCHANGED <<os, tool, fs, argv, pc, audio_path, overlays, height, rel,
                   stdout, stderr, exit>>

ParseHeight ==
    /\ pc = "parse" /\ i < Argc
    /\ ~IsOverlays /\ ~IsViewerUrl /\ IsHeight
    /\ height' = IF IsInt(Arg(i + 1)) THEN IntHeight(IntOf(Arg(i + 1)))
                 ELSE StrHeight(Arg(i + 1))
    /\ i' = Advance(i)
    /\ UNCHANGED <<os, tool, fs, argv, pc, audio_path, viewer_url, overlays, rel,
                   stdout, stderr, exit>>

ParseUnknown ==
    /\ pc = "parse" /\ i < Argc
    /\ ~IsOverlays /\ ~IsViewerUrl /\ ~IsHeight
    /\ stderr' = Append(stderr, UnknownArgument(Arg(i)))
    /\ exit' = 1
    /\ pc' = "done"
    /\ UNCHANGED <<os, tool, fs, argv, audio_path, viewer_url, overlays, height,
                   i, rel, stdout>>

\* the try block: create_embedded_viewer, then print(html) or the handler
Create ==
    /\ pc = "parse" /\ i >= Argc
    /\ LET r == create_embedded_viewer(tool, os, fs, audio_path, overlays,
                                       viewer_url, height)
       IN  /\ stdout' = IF r.raised THEN stdout ELSE Append(stdout, r.html)
           /\ stderr' = (IF r.warned THEN Append(stderr, SizeWarning) ELSE stderr)
                        \o (IF r.raised THEN << Error(r.exc, audio_path) >> ELSE <<>>)
           /\ exit' = ExitStatus(r.raised)
           /\ rel' = IF tool = "create-iframe" /\ ~r.raised
                     THEN calculate_relative_path(os, audio_path, viewer_url)
                     ELSE rel
    /\ pc' = "done"
    /\ UNCHANGED <<os, tool, fs, argv, audio_path, viewer_url, overlays, height, i>>

Next ==
    \/ MainUsage
    \/ MainDefaults
    \/ ParseOverlays
    \/ ParseViewerUrl
    \/ ParseHeight
    \/ ParseUnknown
    \/ Create

Spec == Init /\ [][Next]_vars

(* ------------------ properties of calculate_relative_path ------------- *)
AudioFile == Resolve(os, audio_path)

ViewerFile == Resolve(os, viewer_url)

\* the viewer's containing directory; the anchor contains itself
ViewerDir == IF Len(ViewerFile) > 1 THEN SubSeq(ViewerFile, 1, Len(ViewerFile) - 1)
             ELSE ViewerFile

Returned == pc = "return"

HasPrefix(p, q) == Len(q) <= Len(p) /\ \A j \in 1..Len(q) : p[j] = q[j]

Inside == HasPrefix(AudioFile, ViewerDir)

Beyond(p, n) == [j \in 1..(Len(p) - n) |-> p[j + n]]

\* the segments of the returned string, as the platform reads it
RelSegs == Split(rel, Seps(os))

Markers == Cardinality({ j \in 1..Len(RelSegs) : RelSegs[j] = DotDot })

\* resolving a relative path against a directory, segment by segment: ".."
\* removes the last segment, "." and an empty segment stay in place, any
\* other segment is entered
RECURSIVE Walk(_, _)
Walk(dir, segs) ==
    IF segs = <<>> THEN dir
    ELSE IF segs[1] = DotDot
         THEN Walk(IF dir = <<>> THEN dir ELSE SubSeq(dir, 1, Len(dir) - 1), Tail(segs))
         ELSE IF segs[1] \in { <<>>, Dot } THEN Walk(dir, Tail(segs))
         ELSE Walk(Append(dir, segs[1]), Tail(segs))

\* the length of the longest common prefix of two part tuples
Shorter(p, q) == IF Len(p) <= Len(q) THEN Len(p) ELSE Len(q)

LongestCommonPrefix(p, q) ==
    CHOOSE k \in 0..Shorter(p, q) :
        /\ \A j \in 1..k : p[j] = q[j]
        /\ k = Shorter(p, q) \/ p[k + 1] # q[k + 1]

\* C1: resolving the returned path against the viewer's directory gives back
\* the resolved audio path, for every audio path and viewer path.
C1_RoundTrip == Returned => Walk(ViewerDir, RelSegs) = AudioFile

\* C2: audio and viewer in the same directory: the result is the audio file's
\* name alone, one segment, no parent marker and no separator.
C2_SameDirectory ==
    (Returned /\ Len(AudioFile) >= 2 /\ ViewerDir = SubSeq(AudioFile, 1, Len(AudioFile) - 1))
        => /\ rel = AudioFile[Len(AudioFile)]
           /\ Markers = 0
           /\ \A j \in 1..Len(rel) : rel[j] \notin Seps(os)

C2_Witness ==
    /\ Returned /\ Len(AudioFile) >= 3
    /\ ViewerDir = SubSeq(AudioFile, 1, Len(AudioFile) - 1)

\* the audio file's directory is the parent of the viewer's directory
OneAbove ==
    /\ Len(AudioFile) >= 2 /\ Len(ViewerDir) >= 2
    /\ SubSeq(AudioFile, 1, Len(AudioFile) - 1) = SubSeq(ViewerDir, 1, Len(ViewerDir) - 1)

\* C3 as stated: audio one directory above the viewer's directory: exactly one
\* parent marker, followed by the audio file's name.
C3_OneAbove_Stated ==
    (Returned /\ OneAbove) => RelSegs = << DotDot, AudioFile[Len(AudioFile)] >>

\* C3 amended: the same, when the audio path is not the viewer's directory
\* itself; when it is, the result is "." and holds no parent marker.
C3_OneAbove ==
    /\ (Returned /\ OneAbove /\ AudioFile # ViewerDir)
          => RelSegs = << DotDot, AudioFile[Len(AudioFile)] >>
    /\ (Returned /\ OneAbove /\ AudioFile = ViewerDir) => rel = Dot

C3_Witness == Returned /\ OneAbove /\ AudioFile # ViewerDir /\ Markers = 1

\* C6 as stated: inside the viewer directory's subtree the result is exactly
\* the audio path's segments beyond the prefix, with no parent marker.
C6_Inside_Stated ==
    (Returned /\ Inside)
        => /\ rel = Join(Sep(os), Beyond(AudioFile, Len(ViewerDir)))
           /\ Markers = 0

\* C6 amended: the same, the segments joined by the platform's separator,
\* except that the result is "." when there is no segment beyond the prefix.
C6_Inside ==
    (Returned /\ Inside)
        => /\ Len(AudioFile) > Len(ViewerDir)
                => rel = Join(Sep(os), Beyond(AudioFile, Len(ViewerDir)))
           /\ Len(AudioFile) = Len(ViewerDir) => rel = Dot
           /\ Markers = 0

C6_Witness == Returned /\ Inside /\ Len(AudioFile) = Len(ViewerDir) + 2

\* C7: outside the subtree, with k the longest common prefix, the result is
\* (viewer directory segments - k) parent markers, then the audio segments
\* from k on, joined with "/".
C7_Outside ==
    (Returned /\ ~Inside)
        => LET k == LongestCommonPrefix(AudioFile, ViewerDir)
           IN  rel = Join(Slash, Repeat(DotDot, Len(ViewerDir) - k) \o Beyond(AudioFile, k))

C7_Witness ==
    /\ Returned /\ ~Inside
    /\ LongestCommonPrefix(AudioFile, ViewerDir) = 2
    /\ Len(ViewerDir) = 4 /\ Len(AudioFile) = 4
    /\ AudioFile[4] = ViewerDir[4]

\* C8: different root segments: one parent marker per viewer directory
\* segment, the root included, then every audio segment, the root included.
C8_DifferentRoots ==
    (Returned /\ AudioFile[1] # ViewerDir[1])
        => /\ Markers = Len(ViewerDir)
           /\ SubSeq(RelSegs, 1, Len(ViewerDir)) = Repeat(DotDot, Len(ViewerDir))
           /\ rel = Join(Slash, Repeat(DotDot, Len(ViewerDir))) \o Slash \o Join(Slash, AudioFile)

C8_Witness ==
    /\ Returned /\ AudioFile[1] # ViewerDir[1]
    /\ Len(ViewerDir) >= 2 /\ Len(AudioFile) >= 3 /\ AudioFile[2] = ViewerDir[2]

(* -------------------- properties of the command lines ----------------- *)
Flags(t) == IF t = "create-iframe" THEN { OVERLAYS, VIEWER_URL, HEIGHT }
            ELSE { OVERLAYS, VIEWER_URL }

\* the arguments after the audio file
Options == [k \in 1..(Len(argv) - 2) |-> argv[k + 2]]

Done == pc = "done"

\* flag, value, flag, value, ...: every flag recognized, every flag with a value
WellFormed ==
    /\ Len(Options) % 2 = 0
    /\ \A k \in 1..Len(Options) : k % 2 = 1 => Options[k] \in Flags(tool)

\* the places where a flag is expected and the token there is no recognized
\* flag, or a recognized flag with nothing after it, every pair before being
\* a recognized flag and its value
FlagExpected(k) ==
    /\ k \in 1..Len(Options) /\ k % 2 = 1
    /\ \A q \in 1..(k - 1) : q % 2 = 1 => Options[q] \in Flags(tool)

NotAFlag == { k \in 1..Len(Options) : FlagExpected(k) /\ Options[k] \notin Flags(tool) }

FlagWithoutValue ==
    { k \in 1..Len(Options) : FlagExpected(k) /\ Options[k] \in Flags(tool) /\ k = Len(Options) }

\* the value of the last occurrence of a flag, or the default
LastOf(flag, default) ==
    LET at == { k \in 1..Len(Options) : k % 2 = 1 /\ Options[k] = flag }
    IN  IF at = {} THEN default
        ELSE Options[(CHOOSE k \in at : \A q \in at : q <= k) + 1]

Kinds(out) == { out[k].kind : k \in 1..Len(out) }

Snippets == Cardinality({ k \in 1..Len(stdout) : stdout[k].kind = "iframe" })

\* C4: the audio file named on the command line is missing and the options
\* are valid: non-zero exit, a file-not-found error, no HTML on standard
\* output; for both tools.
C4_MissingAudio ==
    (Done /\ Len(argv) >= 2 /\ fs = "missing" /\ WellFormed)
        => /\ exit > 0
           /\ Len(stderr) = 1
           /\ stderr[1].kind = "error" /\ stderr[1].exc = "FileNotFoundError"
           /\ stderr[1].path = argv[2]
           /\ stdout = <<>>

C4_Witness ==
    /\ Done /\ Len(argv) >= 2 /\ fs = "missing" /\ WellFormed
    /\ Len(Options) = 4 /\ tool = "create-data-url" /\ exit = 1

\* C5 as stated: an argument that is not a recognized flag produces a usage
\* message and a non-zero exit, and no iframe snippet, whatever valid options
\* came before it.
C5_UnknownFlag_Stated ==
    (Done /\ NotAFlag # {})
        => /\ "usage" \in Kinds(stdout) \cup Kinds(stderr)
           /\ exit > 0
           /\ Snippets = 0

\* C5 amended: such an argument, standing where a flag is expected, produces
\* the error "Unknown argument: <the argument>" on standard error and not the
\* usage message, a non-zero exit, and no iframe snippet.
C5_UnknownFlag ==
    (Done /\ NotAFlag # {})
        => /\ Len(stderr) = 1
           /\ stderr[1].kind = "unknown argument"
           /\ \A k \in NotAFlag : stderr[1].arg = Options[k]
           /\ "usage" \notin Kinds(stdout) \cup Kinds(stderr)
           /\ exit > 0
           /\ Snippets = 0

C5_Witness ==
    /\ Done /\ 3 \in NotAFlag
    /\ Options[3] = HEIGHT /\ tool = "create-data-url"
    /\ exit = 1

\* C9: a snippet is on standard output if and only if the run ends with exit
\* status zero, and at most once; nothing is printed and then followed by a
\* non-zero exit, and no run exits zero without a snippet.
C9_SnippetIffZero ==
    /\ Snippets <= 1
    /\ ~Done => (Snippets = 0 /\ exit = -1)
    /\ Done => (exit \in {0, 1} /\ (Snippets = 1 <=> exit = 0))

C9_Witness ==
    /\ Done /\ exit = 0 /\ Snippets = 1 /\ Len(stdout) = 1
    /\ tool = "create-data-url" /\ fs = "big" /\ Len(Options) = 4

\* C10: the option loop goes left to right and ends before the audio file is
\* looked at: a step takes a recognized flag and the value after it, or exits
\* at once with the unknown-argument error; a later occurrence of a flag
\* overrides an earlier one; a recognized flag in last place is rejected like
\* an unrecognized one; an invalid argument is reported even when the audio
\* file is missing; the loop always terminates: every step of it either
\* ends the run or brings i closer to the end of argv, never past it.
C10_Step ==
    /\ (pc = "parse" /\ pc' = "parse")
          => /\ i + 1 < Len(argv) /\ i' = i + 2
             /\ Len(argv) - i' < Len(argv) - i /\ Len(argv) - i' >= 0
             /\ argv[i + 1] \in Flags(tool)
             /\ argv[i + 1] = OVERLAYS => overlays' = argv[i + 2]
             /\ argv[i + 1] = VIEWER_URL => viewer_url' = argv[i + 2]
             /\ stdout' = <<>> /\ stderr' = <<>> /\ exit' = -1
    /\ (pc = "parse" /\ pc' = "done" /\ i < Len(argv))
          => /\ argv[i + 1] \notin Flags(tool) \/ i + 1 = Len(argv)
             /\ stdout' = <<>>
             /\ Len(stderr') = 1 /\ stderr'[1].kind = "unknown argument"
             /\ stderr'[1].arg = argv[i + 1]
             /\ exit' = 1
    /\ (stdout' # stdout \/ "error" \in Kinds(stderr'))
          => (pc = "main" \/ i = Len(argv))

C10_Final ==
    (Done /\ Len(argv) >= 2)
        => /\ WellFormed
              => /\ i = Len(argv)
                 /\ "unknown argument" \notin Kinds(stderr)
                 /\ overlays = LastOf(OVERLAYS, DefaultOverlays)
                 /\ viewer_url = LastOf(VIEWER_URL, DefaultViewerUrl(tool))
                 /\ exit = 0 => stdout[1].overlays = overlays
           /\ \A k \in NotAFlag \cup FlagWithoutValue :
                 /\ i = k + 1
                 /\ Len(stderr) = 1 /\ stderr[1].kind = "unknown argument"
                 /\ stderr[1].arg = Options[k]
                 /\ exit = 1 /\ stdout = <<>>

C10_OptionLoop == [][C10_Step /\ C10_Final']_vars

C10_Witness ==
    /\ Done /\ fs = "missing" /\ Len(Options) = 3
    /\ Options[1] = OVERLAYS /\ Options[3] = OVERLAYS
    /\ FlagWithoutValue = {3}
    /\ overlays = Options[2]
    /\ Len(stderr) = 1 /\ stderr[1].kind = "unknown argument"

====
